---- MODULE Spec2Model ----
(***************************************************************************)
(* A model of the game client of src/game.js (class GameClient): the       *)
(* state of the client object, and one action per event handler (inbound   *)
(* WebSocket message, key down / key up, canvas click, chat button, window *)
(* resize, socket open / close, clock advance).                            *)
(*                                                                         *)
(* Conventions                                                             *)
(*  - JavaScript null / undefined of a string is NoId, of a player record  *)
(*    is NoPlayer; a field a message lacks is a has* flag set to FALSE.    *)
(*  - The camera is kept in half pixels (cameraX = 2 * this.cameraX), so   *)
(*    that canvas.width / 2 is exact for odd widths too.                   *)
(*  - trace is the last event and the calls its handler made, in order     *)
(*    (Map.set, updateCamera, draw, chatMessages.delete, ws.send, image    *)
(*    fetches, the footstep cue, a caught exception); frame is what the    *)
(*    last draw() put on the canvas.                                       *)
(*  - this.worldImage is an Image object from init() on, so the            *)
(*    `if (!this.worldImage) return` of draw() and drawMiniMap() never     *)
(*    returns; the world layer itself is not part of frame.                *)
(*  - A player record is stored under its own id, an avatar definition     *)
(*    under its own name, as the server sends them.                        *)
(*  - A cached avatar holds an image for every facing and animation frame  *)
(*    of the players that use it, so of the two early returns of           *)
(*    drawAvatar() the model has the first (no cache entry); the second    *)
(*    (no such frame) leaves the function at the same point.  A label is   *)
(*    identified by the id of its player.                                  *)
(***************************************************************************)
EXTENDS Integers, Sequences, FiniteSets, TLC

VARIABLES
    now,               \* Date.now()
    canvasW, canvasH,  \* this.canvas.width / height
    wsState,           \* this.ws.readyState
    myPlayerId, myPlayer, allPlayers, avatars, avatarImages,
    cameraX, cameraY,
    pressedKeys, isMoving, currentDirection,
    soundEnabled, lastFootstepTime,
    chatMessages,
    trace, frame

vars == <<now, canvasW, canvasH, wsState, myPlayerId, myPlayer, allPlayers,
          avatars, avatarImages, cameraX, cameraY, pressedKeys, isMoving,
          currentDirection, soundEnabled, lastFootstepTime, chatMessages,
          trace, frame>>

----------------------------------------------------------------------------
(* Program constants *)

worldWidth == 2048
worldHeight == 2048
footstepCooldown == 300
chatDuration == 3000

(* Bounds of the model *)

\* Date.now() at construction: any value far above lastFootstepTime = 0.
StartTime == 1000
\* How far beyond StartTime the clock advances in the runs on overlays and
\* in the runs on footsteps.
OverlayHorizon == 3002
FootstepHorizon == 700

----------------------------------------------------------------------------
(* Values *)

NoId == "none"
NoPlayer == [id |-> NoId, x |-> 0, y |-> 0, isMoving |-> FALSE, avatar |-> NoId]
NoText == ""

Max(a, b) == IF a >= b THEN a ELSE b
Min(a, b) == IF a <= b THEN a ELSE b

EmptyMap == [k \in {} |-> k]
MapSet(m, k, v) == [j \in (DOMAIN m) \cup {k} |-> IF j = k THEN v ELSE m[j]]
MapDelete(m, k) == [j \in (DOMAIN m) \ {k} |-> m[j]]
MapGet(m, k, dflt) == IF k \in DOMAIN m THEN m[k] ELSE dflt

\* The avatar the server has given to the player id.
AvatarOf(id) ==
    CASE id = "p1" -> "a1"
      [] id = "p2" -> "a2"
      [] OTHER -> "a3"

Player(id, x, y, moving) ==
    [id |-> id, x |-> x, y |-> y, isMoving |-> moving, avatar |-> AvatarOf(id)]
\* An avatar definition; hasFrames = FALSE is a definition without frames.
Avatar(name, hasFrames) == [name |-> name, hasFrames |-> hasFrames]

\* One call made by a handler; x, y are the coordinates of a point move.
Call(op, arg) == [op |-> op, arg |-> arg, x |-> 0, y |-> 0]
CallXY(op, arg, x, y) == [op |-> op, arg |-> arg, x |-> x, y |-> y]
Count(s, op) == Cardinality({i \in 1..Len(s) : s[i].op = op})
Args(s, op) == {s[i].arg : i \in {j \in 1..Len(s) : s[j].op = op}}
\* The event of trace s is `call`.
Handled(s, call) == s # <<>> /\ s[1] = call
\* The positions in s of the calls of op.
At(s, op) == {i \in 1..Len(s) : s[i].op = op}

NoFrame == [players |-> {}, sprites |-> {}, labels |-> {}, bubbles |-> EmptyMap]

----------------------------------------------------------------------------
(* Camera *)

\* Faulty variant of ClampAxis: the two clamps are applied in the other order.
ClampAxisMinLast(p, view, world) ==
    Min(Max(0, 2 * p - view), 2 * (world - view))

\* One axis of updateCamera, in half pixels: centre, then clamp.
ClampAxis(p, view, world) ==
    Max(0, Min(2 * p - view, 2 * (world - view)))

\* updateCamera(): <<cameraX, cameraY>> after the call.
UpdateCamera(player, cx, cy, w, h) ==
    IF player = NoPlayer THEN <<cx, cy>>
    ELSE <<ClampAxis(player.x, w, worldWidth), ClampAxis(player.y, h, worldHeight)>>

----------------------------------------------------------------------------
(* Renderer *)

\* Faulty variant of Expired: the entry expires at chatDuration already.
ExpiredAtDuration(chatData, t) == t - chatData.timestamp >= chatDuration

\* The TTL test of drawChatBubble: the entry is deleted instead of drawn.
Expired(chatData, t) == t - chatData.timestamp > chatDuration

\* The screen test of drawChatBubble (half pixels).
BubbleOnScreen(player, cx, cy, w, h) ==
    LET sx == 2 * player.x - cx
        sy == 2 * player.y - cy
    IN ~(sx < -200 \/ sx > 2 * (w + 100) \/ sy < -200 \/ sy > 2 * (h + 100))

\* The entries that draw() deletes: the expired ones of the players drawn.
Purged(players, chat, t) ==
    {k \in DOMAIN chat : k \in DOMAIN players /\ Expired(chat[k], t)}

\* Faulty variant of DrawChat: every expired entry is deleted, whoever owns it.
DrawChatAll(players, chat, t) ==
    [id \in {k \in DOMAIN chat : ~Expired(chat[k], t)} |-> chat[id]]

\* chatMessages after draw(): every player's expired entry is deleted.
DrawChat(players, chat, t) ==
    [id \in {k \in DOMAIN chat : ~(k \in DOMAIN players /\ Expired(chat[k], t))}
        |-> chat[id]]

\* The screen test of drawAvatar (half pixels).
AvatarOnScreen(player, cx, cy, w, h) ==
    LET sx == 2 * player.x - cx
        sy == 2 * player.y - cy
    IN ~(sx < -100 \/ sx > 2 * (w + 50) \/ sy < -100 \/ sy > 2 * (h + 50))

\* The players for which drawAvatar() reaches its drawImage and, after it,
\* its strokeText/fillText of the username.
AvatarsDrawn(players, images, cx, cy, w, h) ==
    {k \in DOMAIN players :
       /\ players[k].avatar \in images
       /\ AvatarOnScreen(players[k], cx, cy, w, h)}

\* What draw() puts on the canvas.
DrawFrame(players, chat, images, t, cx, cy, w, h) ==
    [players |-> DOMAIN players,
     sprites |-> AvatarsDrawn(players, images, cx, cy, w, h),
     labels |-> AvatarsDrawn(players, images, cx, cy, w, h),
     bubbles |-> [id \in {k \in DOMAIN players :
                            /\ k \in DOMAIN chat
                            /\ ~Expired(chat[k], t)
                            /\ BubbleOnScreen(players[k], cx, cy, w, h)}
                    |-> chat[id].message]]

----------------------------------------------------------------------------
(* Asset cache *)

\* Faulty variant of LoadAvatarImage: the has() test is missing.
LoadAvatarImageAlways(avatar, images, tr) ==
    IF ~avatar.hasFrames
    THEN [images |-> images, trace |-> tr, threw |-> TRUE]
    ELSE [images |-> images \cup {avatar.name},
          trace |-> Append(tr, Call("fetch", avatar.name)),
          threw |-> FALSE]

\* loadAvatarImage(avatar) on cache `images` with the calls made so far `tr`:
\* [images, trace, threw].
LoadAvatarImage(avatar, images, tr) ==
    IF avatar.name \in images
    THEN [images |-> images, trace |-> tr, threw |-> FALSE]
    ELSE IF ~avatar.hasFrames
    THEN [images |-> images, trace |-> tr, threw |-> TRUE]
    ELSE [images |-> images \cup {avatar.name},
          trace |-> Append(tr, Call("fetch", avatar.name)),
          threw |-> FALSE]

\* loadAvatarImages(): the avatars in the table's order, up to the first throw.
RECURSIVE LoadAvatarImages(_, _, _)
LoadAvatarImages(list, images, tr) ==
    IF list = <<>> THEN [images |-> images, trace |-> tr, threw |-> FALSE]
    ELSE LET r == LoadAvatarImage(Head(list), images, tr)
         IN IF r.threw THEN r ELSE LoadAvatarImages(Tail(list), r.images, r.trace)

----------------------------------------------------------------------------
(* Audio *)

\* Faulty variant of PlayFootstepSound: the cooldown test is one off.
PlayFootstepSoundEarly(enabled, last, t, tr) ==
    IF ~enabled THEN [last |-> last, trace |-> tr]
    ELSE IF t - last < footstepCooldown - 50 THEN [last |-> last, trace |-> tr]
    ELSE [last |-> t, trace |-> Append(tr, Call("footstep", ""))]

\* playFootstepSound(): [last, trace].
PlayFootstepSound(enabled, last, t, tr) ==
    IF ~enabled THEN [last |-> last, trace |-> tr]
    ELSE IF t - last < footstepCooldown THEN [last |-> last, trace |-> tr]
    ELSE [last |-> t, trace |-> Append(tr, Call("footstep", ""))]

----------------------------------------------------------------------------
(* The part of the client a handler works on, as one record *)

Client ==
    [myPlayerId |-> myPlayerId, myPlayer |-> myPlayer, allPlayers |-> allPlayers,
     avatars |-> avatars, avatarImages |-> avatarImages,
     cameraX |-> cameraX, cameraY |-> cameraY,
     lastFootstepTime |-> lastFootstepTime, chatMessages |-> chatMessages,
     trace |-> <<>>, frame |-> frame]

Did(c, call) == [c EXCEPT !.trace = Append(@, call)]

\* this.updateCamera() on client record c.
CallUpdateCamera(c) ==
    LET cam == UpdateCamera(c.myPlayer, c.cameraX, c.cameraY, canvasW, canvasH)
    IN [c EXCEPT !.cameraX = cam[1], !.cameraY = cam[2],
                 !.trace = Append(@, Call("updateCamera", ""))]

\* this.draw() on client record c, the canvas being w by h.
DrawOn(c, w, h) ==
    [c EXCEPT !.frame = DrawFrame(c.allPlayers, c.chatMessages, c.avatarImages,
                                  now, c.cameraX, c.cameraY, w, h),
              !.chatMessages = DrawChat(c.allPlayers, c.chatMessages, now),
              !.trace = Append(@, Call("draw", "")) \o
                  [i \in 1..Cardinality(Purged(c.allPlayers, c.chatMessages, now))
                      |-> Call("delete", "")]]

Draw(c) == DrawOn(c, canvasW, canvasH)

\* An exception leaves the handler: ws.onmessage catches and logs it.
Threw(c) == Did(c, Call("throw", ""))

----------------------------------------------------------------------------
(* Inbound messages *)

Message(action) ==
    [action |-> action, success |-> FALSE, playerId |-> NoId,
     hasPlayers |-> FALSE, players |-> <<>>,
     hasAvatars |-> FALSE, avatars |-> <<>>,
     hasPlayer |-> FALSE, player |-> NoPlayer,
     hasAvatar |-> FALSE, avatar |-> Avatar(NoId, FALSE),
     message |-> NoText]

\* new Map(Object.entries(players)), the entries given as a sequence.
PlayerMap(list) ==
    [id \in {list[i].id : i \in 1..Len(list)} |->
        (CHOOSE p \in {list[i] : i \in 1..Len(list)} : p.id = id)]
AvatarMap(list) ==
    [n \in {list[i].name : i \in 1..Len(list)} |->
        (CHOOSE a \in {list[i] : i \in 1..Len(list)} : a.name = n)]

\* Faulty variant of JoinGameSuccess: the entity set is merged into the store
\* instead of replacing it.
JoinGameSuccessMerge(c, m) ==
    LET c1 == [c EXCEPT !.myPlayerId = m.playerId]
    IN IF ~m.hasPlayers THEN Threw(c1)
       ELSE LET merged == [id \in DOMAIN c.allPlayers \cup DOMAIN PlayerMap(m.players) |->
                             MapGet(PlayerMap(m.players), id, MapGet(c.allPlayers, id, NoPlayer))]
                c2 == [c1 EXCEPT !.allPlayers = merged]
            IN IF ~m.hasAvatars THEN Threw(c2)
               ELSE LET c3 == [c2 EXCEPT
                                 !.avatars = AvatarMap(m.avatars),
                                 !.myPlayer = MapGet(c2.allPlayers, m.playerId, NoPlayer)]
                        ld == LoadAvatarImages(m.avatars, c3.avatarImages, c3.trace)
                        c4 == [c3 EXCEPT !.avatarImages = ld.images, !.trace = ld.trace]
                    IN IF ld.threw THEN Threw(c4)
                       ELSE Draw(CallUpdateCamera(c4))

\* case 'join_game', the branch of message.success
JoinGameSuccess(c, m) ==
    LET c1 == [c EXCEPT !.myPlayerId = m.playerId]
    IN IF ~m.hasPlayers THEN Threw(c1)
       ELSE LET c2 == [c1 EXCEPT !.allPlayers = PlayerMap(m.players)]
            IN IF ~m.hasAvatars THEN Threw(c2)
               ELSE LET c3 == [c2 EXCEPT
                                 !.avatars = AvatarMap(m.avatars),
                                 !.myPlayer = MapGet(c2.allPlayers, m.playerId, NoPlayer)]
                        ld == LoadAvatarImages(m.avatars, c3.avatarImages, c3.trace)
                        c4 == [c3 EXCEPT !.avatarImages = ld.images, !.trace = ld.trace]
                    IN IF ld.threw THEN Threw(c4)
                       ELSE Draw(CallUpdateCamera(c4))

\* Faulty variant of JoinGame: the identifier is taken before the success flag is read.
JoinGameEarlyId(c, m) ==
    IF ~m.success
    THEN Did([c EXCEPT !.myPlayerId = m.playerId], Call("error", "join"))
    ELSE JoinGameSuccess(c, m)

\* case 'join_game'
JoinGame(c, m) ==
    IF ~m.success THEN Did(c, Call("error", "join"))
    ELSE JoinGameSuccess(c, m)

\* The body of the forEach of case 'players_moved', over the batch in order.
\* Faulty variant of MovePlayers: the test for the local identifier is missing.
RECURSIVE MovePlayersAnyone(_, _)
MovePlayersAnyone(batch, c) ==
    IF batch = <<>> THEN c
    ELSE LET p == Head(batch)
             c1 == [c EXCEPT !.allPlayers = MapSet(@, p.id, p),
                             !.trace = Append(@, Call("set", p.id))]
             fs == PlayFootstepSound(soundEnabled, c1.lastFootstepTime, now, c1.trace)
             c2 == IF p.isMoving
                   THEN [c1 EXCEPT !.lastFootstepTime = fs.last, !.trace = fs.trace]
                   ELSE c1
         IN MovePlayersAnyone(Tail(batch), c2)

RECURSIVE MovePlayers(_, _)
MovePlayers(batch, c) ==
    IF batch = <<>> THEN c
    ELSE LET p == Head(batch)
             c1 == [c EXCEPT !.allPlayers = MapSet(@, p.id, p),
                             !.trace = Append(@, Call("set", p.id))]
             fs == PlayFootstepSound(soundEnabled, c1.lastFootstepTime, now, c1.trace)
             c2 == IF p.id = c1.myPlayerId /\ p.isMoving
                   THEN [c1 EXCEPT !.lastFootstepTime = fs.last, !.trace = fs.trace]
                   ELSE c1
         IN MovePlayers(Tail(batch), c2)

\* Faulty variant of PlayersMoved: the camera and the canvas are redone per entity.
RECURSIVE MoveAndRedraw(_, _)
MoveAndRedraw(batch, c) ==
    IF batch = <<>> THEN c
    ELSE MoveAndRedraw(Tail(batch),
                       Draw(CallUpdateCamera(MovePlayers(<<Head(batch)>>, c))))
PlayersMovedRedrawEach(c, m) ==
    IF ~m.hasPlayers THEN Threw(c) ELSE MoveAndRedraw(m.players, c)

\* case 'players_moved'
PlayersMoved(c, m) ==
    IF ~m.hasPlayers THEN Threw(c)
    ELSE Draw(CallUpdateCamera(MovePlayers(m.players, c)))

\* case 'player_joined'
PlayerJoined(c, m) ==
    IF ~m.hasPlayer THEN Threw(c)
    ELSE LET c1 == [c EXCEPT !.allPlayers = MapSet(@, m.player.id, m.player)]
         IN IF ~m.hasAvatar THEN Threw(c1)
            ELSE LET c2 == [c1 EXCEPT !.avatars = MapSet(@, m.avatar.name, m.avatar)]
                     ld == LoadAvatarImage(m.avatar, c2.avatarImages, c2.trace)
                     c3 == [c2 EXCEPT !.avatarImages = ld.images, !.trace = ld.trace]
                 IN IF ld.threw THEN Threw(c3) ELSE Draw(c3)

\* Faulty variant of PlayerLeft: the frame is drawn before the entity is removed.
PlayerLeftDrawFirst(c, m) ==
    LET c1 == Draw(c) IN [c1 EXCEPT !.allPlayers = MapDelete(@, m.playerId)]

\* case 'player_left'
PlayerLeft(c, m) ==
    Draw([c EXCEPT !.allPlayers = MapDelete(@, m.playerId)])

\* Faulty variant of Chat: a message that repeats the text of the entity's
\* overlay keeps the time of the overlay.
ChatKeepsWindow(c, m) ==
    IF m.playerId # NoId /\ m.message # NoText
    THEN LET old == MapGet(c.chatMessages, m.playerId,
                           [message |-> NoText, timestamp |-> now])
             t == IF old.message = m.message THEN old.timestamp ELSE now
         IN Draw([c EXCEPT !.chatMessages =
                     MapSet(@, m.playerId, [message |-> m.message, timestamp |-> t])])
    ELSE c

\* case 'chat'
Chat(c, m) ==
    IF m.playerId # NoId /\ m.message # NoText
    THEN Draw([c EXCEPT !.chatMessages =
                 MapSet(@, m.playerId, [message |-> m.message, timestamp |-> now])])
    ELSE c

\* handleServerMessage(message)
HandleServerMessage(c, m) ==
    CASE m.action = "join_game" -> JoinGame(c, m)
      [] m.action = "players_moved" -> PlayersMoved(c, m)
      [] m.action = "player_joined" -> PlayerJoined(c, m)
      [] m.action = "player_left" -> PlayerLeft(c, m)
      [] m.action = "chat" -> Chat(c, m)
      [] OTHER -> Did(c, Call("log", "unknown"))

\* The client record written back to the object's fields.
Store(c) ==
    /\ myPlayerId' = c.myPlayerId
    /\ myPlayer' = c.myPlayer
    /\ allPlayers' = c.allPlayers
    /\ avatars' = c.avatars
    /\ avatarImages' = c.avatarImages
    /\ cameraX' = c.cameraX
    /\ cameraY' = c.cameraY
    /\ lastFootstepTime' = c.lastFootstepTime
    /\ chatMessages' = c.chatMessages
    /\ trace' = c.trace
    /\ frame' = c.frame

\* ws.onmessage with a message that parses.
OnMessage(m) ==
    /\ wsState = "open"
    /\ Store(HandleServerMessage(Did(Client, Call("message", m.action)), m))
    /\ UNCHANGED <<now, canvasW, canvasH, wsState, pressedKeys, isMoving,
                   currentDirection, soundEnabled>>

----------------------------------------------------------------------------
(* Input translator *)

NoDir == "none"

\* getDirectionFromKey(key)
GetDirectionFromKey(key) ==
    CASE key = "ArrowUp" -> "up"
      [] key = "ArrowDown" -> "down"
      [] key = "ArrowLeft" -> "left"
      [] key = "ArrowRight" -> "right"
      [] OTHER -> NoDir

\* sendMoveCommand(direction): the calls made, after those of tr.
SendMoveCommand(tr, direction) ==
    IF wsState # "open" THEN tr ELSE Append(tr, Call("send:move", direction))

\* Faulty variant of SendStopCommand: the readyState test is missing.
SendStopCommandUnchecked(tr) == Append(tr, Call("send:stop", ""))

\* sendStopCommand()
SendStopCommand(tr) ==
    IF wsState # "open" THEN tr ELSE Append(tr, Call("send:stop", ""))

\* Faulty variant of Round: the fraction is cut off.
RoundDown(v2) == v2 \div 2

\* Math.round of a value given in half pixels (halves round up).
Round(v2) == (v2 + 1) \div 2

\* sendClickToMoveCommand(x, y), x and y in half pixels.
SendClickToMoveCommand(tr, x2, y2) ==
    IF wsState # "open" THEN tr
    ELSE Append(tr, CallXY("send:moveto", "", Round(x2), Round(y2)))

\* Faulty variant of HandleKeyDown: the pressedKeys.has(key) test is missing.
HandleKeyDownRepeat(key) ==
    LET direction == GetDirectionFromKey(key)
    IN /\ IF direction # NoDir
          THEN /\ pressedKeys' = pressedKeys \cup {key}
               /\ trace' = SendMoveCommand(<<Call("keydown", key)>>, direction)
               /\ isMoving' = TRUE
               /\ currentDirection' = direction
          ELSE /\ trace' = <<Call("keydown", key)>>
               /\ UNCHANGED <<pressedKeys, isMoving, currentDirection>>
       /\ UNCHANGED <<now, canvasW, canvasH, wsState, myPlayerId, myPlayer,
                      allPlayers, avatars, avatarImages, cameraX, cameraY,
                      soundEnabled, lastFootstepTime, chatMessages, frame>>

\* handleKeyDown(event)
HandleKeyDown(key) ==
    LET direction == GetDirectionFromKey(key)
    IN /\ IF direction # NoDir /\ key \notin pressedKeys
          THEN /\ pressedKeys' = pressedKeys \cup {key}
               /\ trace' = SendMoveCommand(<<Call("keydown", key)>>, direction)
               /\ isMoving' = TRUE
               /\ currentDirection' = direction
          ELSE /\ trace' = <<Call("keydown", key)>>
               /\ UNCHANGED <<pressedKeys, isMoving, currentDirection>>
       /\ UNCHANGED <<now, canvasW, canvasH, wsState, myPlayerId, myPlayer,
                      allPlayers, avatars, avatarImages, cameraX, cameraY,
                      soundEnabled, lastFootstepTime, chatMessages, frame>>

\* handleKeyUp(event)
HandleKeyUp(key) ==
    LET direction == GetDirectionFromKey(key)
        left == pressedKeys \ {key}
    IN /\ IF direction # NoDir /\ key \in pressedKeys
          THEN /\ pressedKeys' = left
               /\ IF left = {}
                  THEN /\ trace' = SendStopCommand(<<Call("keyup", key)>>)
                       /\ isMoving' = FALSE
                       /\ currentDirection' = NoDir
                  ELSE /\ trace' = <<Call("keyup", key)>>
                       /\ UNCHANGED <<isMoving, currentDirection>>
          ELSE /\ trace' = <<Call("keyup", key)>>
               /\ UNCHANGED <<pressedKeys, isMoving, currentDirection>>
       /\ UNCHANGED <<now, canvasW, canvasH, wsState, myPlayerId, myPlayer,
                      allPlayers, avatars, avatarImages, cameraX, cameraY,
                      soundEnabled, lastFootstepTime, chatMessages, frame>>

\* handleCanvasClick(event), the click at (sx, sy) relative to the canvas.
HandleCanvasClick(sx, sy) ==
    /\ trace' = SendClickToMoveCommand(<<CallXY("click", "", sx, sy)>>,
                                        2 * sx + cameraX, 2 * sy + cameraY)
    /\ UNCHANGED <<now, canvasW, canvasH, wsState, myPlayerId, myPlayer,
                   allPlayers, avatars, avatarImages, cameraX, cameraY,
                   pressedKeys, isMoving, currentDirection, soundEnabled,
                   lastFootstepTime, chatMessages, frame>>

\* sendChatMessage(message) on client record c.
SendChat(c, message) ==
    IF wsState # "open" THEN c
    ELSE LET c1 == IF c.myPlayerId # NoId
                   THEN Draw([c EXCEPT !.chatMessages =
                                MapSet(@, c.myPlayerId,
                                       [message |-> message, timestamp |-> now])])
                   ELSE c
         IN Did(c1, Call("send:chat", message))

\* A chat button is clicked.
SendChatMessage(message) ==
    /\ Store(SendChat(Did(Client, Call("chatbutton", message)), message))
    /\ UNCHANGED <<now, canvasW, canvasH, wsState, pressedKeys, isMoving,
                   currentDirection, soundEnabled>>

----------------------------------------------------------------------------
(* Window, socket, clock *)

\* The window's resize listener of setupCanvas().
Resize(w, h) ==
    /\ canvasW' = w
    /\ canvasH' = h
    /\ Store(DrawOn(Did(Client, Call("resize", "")), w, h))
    /\ UNCHANGED <<now, wsState, pressedKeys, isMoving, currentDirection,
                   soundEnabled>>

\* ws.onopen: joinGame()
WsOpen ==
    /\ wsState = "connecting"
    /\ wsState' = "open"
    /\ trace' = <<Call("open", ""), Call("send:join", "Tim")>>
    /\ UNCHANGED <<now, canvasW, canvasH, myPlayerId, myPlayer, allPlayers,
                   avatars, avatarImages, cameraX, cameraY, pressedKeys,
                   isMoving, currentDirection, soundEnabled, lastFootstepTime,
                   chatMessages, frame>>

\* ws.onclose
WsClose ==
    /\ wsState \in {"connecting", "open"}
    /\ wsState' = "closed"
    /\ trace' = <<Call("close", "")>>
    /\ UNCHANGED <<now, canvasW, canvasH, myPlayerId, myPlayer, allPlayers,
                   avatars, avatarImages, cameraX, cameraY, pressedKeys,
                   isMoving, currentDirection, soundEnabled, lastFootstepTime,
                   chatMessages, frame>>

\* Time passes between two events (no handler runs).
Tick(d, horizon) ==
    /\ now + d <= StartTime + horizon
    /\ now' = now + d
    /\ trace' = <<>>
    /\ UNCHANGED <<canvasW, canvasH, wsState, myPlayerId, myPlayer, allPlayers,
                   avatars, avatarImages, cameraX, cameraY, pressedKeys,
                   isMoving, currentDirection, soundEnabled, lastFootstepTime,
                   chatMessages, frame>>

\* The client after the constructor, in a window of one of the sizes `views`,
\* with Web Audio available or not as `audio` allows.
InitIn(views, audio) ==
    /\ now = StartTime
    /\ \E v \in views : canvasW = v[1] /\ canvasH = v[2]
    /\ wsState = "connecting"
    /\ myPlayerId = NoId
    /\ myPlayer = NoPlayer
    /\ allPlayers = EmptyMap
    /\ avatars = EmptyMap
    /\ avatarImages = {}
    /\ cameraX = 0
    /\ cameraY = 0
    /\ pressedKeys = {}
    /\ isMoving = FALSE
    /\ currentDirection = NoDir
    /\ soundEnabled \in audio
    /\ lastFootstepTime = 0
    /\ chatMessages = EmptyMap
    /\ trace = <<>>
    /\ frame = NoFrame

----------------------------------------------------------------------------
(* The messages the server sends in the runs checked *)

PosA == <<100, 100>>
PosB == <<1000, 1000>>
At1(id, pos, moving) == Player(id, pos[1], pos[2], moving)

JoinResult(id, players, avatarList) ==
    [Message("join_game") EXCEPT !.success = TRUE, !.playerId = id,
        !.hasPlayers = TRUE, !.players = players,
        !.hasAvatars = TRUE, !.avatars = avatarList]
JoinFailure == Message("join_game")
\* A successful join-result without its entity set.
JoinNoPlayers == [Message("join_game") EXCEPT !.success = TRUE, !.playerId = "p1"]
PositionsUpdate(batch) ==
    [Message("players_moved") EXCEPT !.hasPlayers = TRUE, !.players = batch]
EntityJoined(player, avatar) ==
    [Message("player_joined") EXCEPT
        !.hasPlayer = TRUE, !.player = [player EXCEPT !.avatar = avatar.name],
        !.hasAvatar = TRUE, !.avatar = avatar]
\* An entity-joined without its avatar definition.
EntityJoinedNoAvatar(player) ==
    [Message("player_joined") EXCEPT !.hasPlayer = TRUE, !.player = player]
EntityLeft(id) == [Message("player_left") EXCEPT !.playerId = id]
ChatFrom(id, text) == [Message("chat") EXCEPT !.playerId = id, !.message = text]

JoinMsgs ==
    { JoinResult("p1", <<At1("p1", PosA, FALSE)>>, <<Avatar("a1", TRUE)>>),
      JoinResult("p1", <<At1("p1", PosA, FALSE), At1("p2", PosB, FALSE)>>,
                 <<Avatar("a1", TRUE), Avatar("a2", TRUE)>>),
      JoinResult("p1", <<At1("p1", PosB, FALSE)>>,
                 <<Avatar("a1", TRUE), Avatar("a2", FALSE)>>),
      JoinFailure,
      JoinNoPlayers }

MovedMsgs ==
    { PositionsUpdate(<<>>),
      PositionsUpdate(<<At1("p1", PosB, TRUE)>>),
      PositionsUpdate(<<At1("p2", PosA, TRUE), At1("p1", PosA, FALSE)>>),
      Message("players_moved") }

JoinedMsgs ==
    { EntityJoined(At1("p2", PosA, FALSE), Avatar("a2", TRUE)),
      EntityJoined(At1("p2", PosB, FALSE), Avatar("a1", TRUE)),
      EntityJoinedNoAvatar(At1("p2", PosB, FALSE)),
      Message("player_joined") }

LeftMsgs == { EntityLeft("p1"), EntityLeft("p2"), EntityLeft("p3") }

ChatMsgs == { ChatFrom("p2", "hi"), ChatFrom("p2", NoText) }

SyncMsgs ==
    JoinMsgs \cup MovedMsgs \cup JoinedMsgs \cup LeftMsgs \cup ChatMsgs
        \cup {Message("ping")}

----------------------------------------------------------------------------
(* The sync engine: the socket opens, then any messages arrive in any order *)

Init == InitIn({<<800, 600>>}, {TRUE})

Next ==
    \/ WsOpen
    \/ WsClose
    \/ \E m \in SyncMsgs : OnMessage(m)

Spec == Init /\ [][Next]_vars

\* A message that lacks a field its handler requires.
Malformed(m) ==
    \/ m.action = "join_game" /\ m.success /\ ~(m.hasPlayers /\ m.hasAvatars)
    \/ m.action = "join_game" /\ m.success /\ m.hasAvatars
         /\ \E i \in 1..Len(m.avatars) : ~m.avatars[i].hasFrames
    \/ m.action = "players_moved" /\ ~m.hasPlayers
    \/ m.action = "player_joined" /\ ~(m.hasPlayer /\ m.hasAvatar)

(* The sync engine when the server sends no malformed message *)

WellFormedMsgs == {m \in SyncMsgs : ~Malformed(m)}

NextWellFormed ==
    \/ WsOpen
    \/ WsClose
    \/ \E m \in WellFormedMsgs : OnMessage(m)

SpecWellFormed == Init /\ [][NextWellFormed]_vars

----------------------------------------------------------------------------
(* The input translator: keys and clicks while the socket opens and closes *)

Keys == {"ArrowUp", "ArrowLeft", "ArrowRight", "a"}
MovementKeys == {k \in Keys : GetDirectionFromKey(k) # NoDir}
Clicks == {<<0, 0>>, <<400, 300>>}

NextInput ==
    \/ WsOpen
    \/ WsClose
    \/ \E k \in Keys : HandleKeyDown(k)
    \/ \E k \in Keys : HandleKeyUp(k)
    \/ \E p \in Clicks : HandleCanvasClick(p[1], p[2])
    \/ SendChatMessage("hi")

SpecInput == Init /\ [][NextInput]_vars

----------------------------------------------------------------------------
(* Overlays: chat messages, renders and the clock *)

OverlayDeltas == {1500, 1501}
OverlayViewports == {<<800, 600>>, <<801, 601>>}

OverlayMsgs ==
    { JoinResult("p1", <<At1("p1", PosA, FALSE), At1("p2", PosB, FALSE)>>,
                 <<Avatar("a1", TRUE), Avatar("a2", TRUE)>>),
      ChatFrom("p1", "hi"), ChatFrom("p1", "yo"), ChatFrom("p2", "hi"),
      ChatFrom("p3", "hi"), ChatFrom("p2", NoText),
      EntityLeft("p2") }

NextOverlay ==
    \/ WsOpen
    \/ \E m \in OverlayMsgs : OnMessage(m)
    \/ SendChatMessage("hi")
    \/ \E v \in OverlayViewports : Resize(v[1], v[2])
    \/ \E d \in OverlayDeltas : Tick(d, OverlayHorizon)

SpecOverlay == Init /\ [][NextOverlay]_vars

\* Rendering continues: the window keeps being resized, each resize a draw().
SpecOverlayFair ==
    SpecOverlay /\ WF_vars(\E v \in OverlayViewports : Resize(v[1], v[2]))

----------------------------------------------------------------------------
(* Footsteps: positions-updates and the clock, with and without Web Audio *)

FootstepDeltas == {50, 250}

FootstepMsgs ==
    { JoinResult("p1", <<At1("p1", PosA, FALSE)>>, <<Avatar("a1", TRUE)>>),
      PositionsUpdate(<<At1("p1", PosB, TRUE)>>),
      PositionsUpdate(<<At1("p2", PosA, TRUE), At1("p1", PosA, FALSE)>>),
      PositionsUpdate(<<At1("p2", PosB, TRUE)>>) }

InitFootstep == InitIn({<<800, 600>>}, BOOLEAN)

NextFootstep ==
    \/ WsOpen
    \/ \E m \in FootstepMsgs : OnMessage(m)
    \/ \E d \in FootstepDeltas : Tick(d, FootstepHorizon)

SpecFootstep == InitFootstep /\ [][NextFootstep]_vars

----------------------------------------------------------------------------
(* The camera: joins at many positions in windows of several sizes *)

Viewports == {<<800, 600>>, <<801, 601>>, <<3000, 1024>>, <<2048, 2500>>}
CameraCoords == {0, 100, 400, 401, 1000, 1648, 2000, 2048}

CameraMsgs ==
    { JoinResult("p1", <<Player("p1", x, y, FALSE)>>, <<Avatar("a1", TRUE)>>) :
        x \in CameraCoords, y \in CameraCoords }

InitCamera == InitIn(Viewports, {TRUE})

NextCamera ==
    \/ WsOpen
    \/ \E m \in CameraMsgs : OnMessage(m)
    \/ \E v \in Viewports : Resize(v[1], v[2])

SpecCamera == InitCamera /\ [][NextCamera]_vars

(* Clicks: windows of even and odd size, the local player placed by the join,
   keys and clicks in any order *)

ClickViewports == {<<800, 600>>, <<801, 601>>}

ClickMsgs ==
    { JoinResult("p1", <<At1("p1", PosA, FALSE)>>, <<Avatar("a1", TRUE)>>),
      JoinResult("p1", <<At1("p1", PosB, FALSE)>>, <<Avatar("a1", TRUE)>>) }

InitClick == InitIn(ClickViewports, {TRUE})

NextClick ==
    \/ WsOpen
    \/ WsClose
    \/ \E m \in ClickMsgs : OnMessage(m)
    \/ \E k \in MovementKeys : HandleKeyDown(k)
    \/ \E k \in MovementKeys : HandleKeyUp(k)
    \/ \E p \in Clicks : HandleCanvasClick(p[1], p[2])

SpecClick == InitClick /\ [][NextClick]_vars

----------------------------------------------------------------------------
(* Claims on the sync engine (Spec) *)

CameraOf(player) ==
    <<ClampAxis(player.x, canvasW, worldWidth), ClampAxis(player.y, canvasH, worldHeight)>>

\* C1: after handling a successful join-result or a positions-update, the
\* camera is the clamped centring of the local player's position as the
\* Entity Store holds it (allPlayers[myPlayerId]).  The handlers that end
\* in updateCamera() are exactly these two.
C1_CameraFollowsStore ==
    (Count(trace, "updateCamera") = 1 /\ myPlayerId \in DOMAIN allPlayers)
        => <<cameraX, cameraY>> = CameraOf(allPlayers[myPlayerId])

Ids(batch) == {batch[i].id : i \in 1..Len(batch)}

\* C4: handling one positions-update with a batch of N entities makes N
\* Map.set calls, then exactly one updateCamera() and exactly one draw(), and
\* the frame drawn shows the store with all N entities upserted.
C4_BatchOnce ==
    [][\A m \in MovedMsgs : (m.hasPlayers /\ OnMessage(m)) =>
          /\ Count(trace', "set") = Len(m.players)
          /\ Count(trace', "updateCamera") = 1
          /\ Count(trace', "draw") = 1
          /\ \A i \in At(trace', "set") :
               \A j \in At(trace', "updateCamera") \cup At(trace', "draw") : i < j
          /\ \A i \in 1..Len(m.players) : allPlayers'[m.players[i].id] = m.players[i]
          /\ frame'.players = DOMAIN allPlayers \cup Ids(m.players)]_vars

\* C4 witness: a positions-update of two entities has just been handled.
C4_Witness ==
    /\ Handled(trace, Call("message", "players_moved"))
    /\ Count(trace, "set") = 2
    /\ Count(trace, "updateCamera") = 1
    /\ Count(trace, "draw") = 1

\* C5: in every step, an image fetch is issued only for an avatar identifier
\* that is not in the Asset Cache, at most once, and puts it there; and an
\* identifier in the cache stays in it.  So across any run an identifier is
\* fetched at most once.
C5_FetchOnce ==
    [][/\ avatarImages \subseteq avatarImages'
       /\ \A a \in Args(trace', "fetch") :
            /\ a \notin avatarImages
            /\ a \in avatarImages'
            /\ Cardinality({i \in At(trace', "fetch") : trace'[i].arg = a}) = 1
       /\ avatarImages' \ avatarImages = Args(trace', "fetch")]_vars

\* C5 witness: an entity-joined whose avatar is cached already was handled to
\* its end, without any fetch.
C5_Witness ==
    /\ Handled(trace, Call("message", "player_joined"))
    /\ Count(trace, "draw") = 1
    /\ Count(trace, "fetch") = 0
    /\ avatarImages = {"a1"}
    /\ DOMAIN avatars = {"a1"}

\* C6: handling an entity-left for X leaves X out of the Entity Store and out
\* of the frame drawn (entities and minimap are one iteration of the store),
\* changes nothing in the store when X was not in it, and throws nothing; and
\* an absent identifier comes back only by a message that carries it.
C6_Departure ==
    [][/\ \A m \in LeftMsgs : OnMessage(m) =>
            /\ m.playerId \notin DOMAIN allPlayers'
            /\ m.playerId \notin frame'.players
            /\ frame'.players = DOMAIN allPlayers'
            /\ allPlayers' = MapDelete(allPlayers, m.playerId)
            /\ (m.playerId \notin DOMAIN allPlayers => allPlayers' = allPlayers)
            /\ Count(trace', "throw") = 0
       /\ \A id \in (DOMAIN allPlayers') \ DOMAIN allPlayers :
            \E m \in JoinMsgs \cup MovedMsgs \cup JoinedMsgs :
                /\ OnMessage(m)
                /\ id \in Ids(m.players) \cup {m.player.id}]_vars

\* C6 witness: the local player had joined and an entity-left has removed it.
C6_Witness ==
    /\ Handled(trace, Call("message", "player_left"))
    /\ myPlayer # NoPlayer
    /\ myPlayerId \notin DOMAIN allPlayers
    /\ DOMAIN allPlayers # {}
    /\ frame.players = DOMAIN allPlayers

\* C9: handling a join-result whose success flag is false changes none of
\* Local Identity, Entity Store, avatar table, Asset Cache, Overlay Tracker,
\* camera.
C9_JoinFailure ==
    [][\A m \in JoinMsgs : (~m.success /\ OnMessage(m)) =>
          UNCHANGED <<myPlayerId, myPlayer, allPlayers, avatars, avatarImages,
                      chatMessages, cameraX, cameraY>>]_vars

\* C9 witness: a failed join-result was handled by a client that had joined.
C9_Witness ==
    /\ trace = <<Call("message", "join_game"), Call("error", "join")>>
    /\ myPlayerId = "p1"
    /\ DOMAIN allPlayers = {"p1", "p2"}

\* C10: a message that lacks a required field is ignored as a whole: it
\* leaves Local Identity, Entity Store, avatar table, Overlay Tracker and
\* Asset Cache as they were.
C10_AllOrNothing ==
    [][\A m \in SyncMsgs : (Malformed(m) /\ OnMessage(m)) =>
          UNCHANGED <<myPlayerId, allPlayers, avatars, chatMessages, avatarImages>>]_vars

----------------------------------------------------------------------------
(* Claims on the input translator (SpecInput) *)

\* C2: with the channel open before and after the event, a "move" is sent
\* exactly when a movement key goes from not pressed to pressed (one send,
\* carrying that key's direction, by the key-down of that key), and a "stop"
\* exactly when the set of pressed keys goes from non-empty to empty; a
\* key-down adds the key when it is a movement key, a key-up removes it.
C2_KeyEdges ==
    [][(wsState = "open" /\ wsState' = "open") =>
          LET pressed == pressedKeys' \ pressedKeys
          IN /\ pressedKeys' \subseteq MovementKeys
             /\ Cardinality(pressed) <= 1
             /\ Count(trace', "send:move") = Cardinality(pressed)
             /\ \A k \in pressed :
                  /\ Handled(trace', Call("keydown", k))
                  /\ Args(trace', "send:move") = {GetDirectionFromKey(k)}
             /\ Count(trace', "send:stop") =
                  IF pressedKeys # {} /\ pressedKeys' = {} THEN 1 ELSE 0
             /\ \A k \in Keys :
                  /\ HandleKeyDown(k) =>
                       pressedKeys' = pressedKeys \cup ({k} \cap MovementKeys)
                  /\ HandleKeyUp(k) => pressedKeys' = pressedKeys \ {k}]_vars

\* C2 witness: two keys were pressed and one of them has just been released,
\* without a "stop".
C2_Witness ==
    /\ wsState = "open"
    /\ Handled(trace, Call("keyup", "ArrowUp"))
    /\ pressedKeys = {"ArrowLeft"}
    /\ Count(trace, "send:stop") = 0

----------------------------------------------------------------------------
(* Claims on overlays (SpecOverlay) *)

----------------------------------------------------------------------------
(* Claims on footsteps (SpecFootstep) *)

\* The batch carries the local player with its moving flag set.
LocalMoving(m) ==
    \E i \in 1..Len(m.players) :
        m.players[i].id = myPlayerId /\ m.players[i].isMoving

\* C8: a handler fires the footstep cue at most once, only 300 ms or more
\* after the last firing, whose time lastFootstepTime keeps (it changes only
\* by a firing, to the time of that firing); with audio available, a
\* positions-update for the moving local player fires exactly when 300 ms or
\* more have passed since the last firing.
C8_FootstepCooldown ==
    [][/\ Count(trace', "footstep") <= 1
       /\ Count(trace', "footstep") = 1 =>
            /\ now' - lastFootstepTime >= footstepCooldown
            /\ lastFootstepTime' = now'
       /\ Count(trace', "footstep") = 0 => lastFootstepTime' = lastFootstepTime
       /\ \A m \in FootstepMsgs :
            (m.action = "players_moved" /\ OnMessage(m) /\ LocalMoving(m)
                /\ soundEnabled) =>
              (Count(trace', "footstep") = 1
                 <=> now - lastFootstepTime >= footstepCooldown)]_vars

\* C8 witness: a positions-update for the moving local player, 50 ms after a
\* firing that was not the first, has fired nothing.
C8_Witness ==
    /\ Handled(trace, Call("message", "players_moved"))
    /\ myPlayerId \in DOMAIN allPlayers
    /\ allPlayers[myPlayerId].isMoving
    /\ Count(trace, "set") = 1
    /\ Count(trace, "footstep") = 0
    /\ soundEnabled
    /\ lastFootstepTime >= StartTime + footstepCooldown
    /\ now - lastFootstepTime = 50

----------------------------------------------------------------------------
(* Claims on the camera (SpecCamera) *)

\* The camera value c (half pixels) of one axis is right for the player
\* coordinate p, the viewport dimension view and the world dimension world.
AxisClamped(c, p, view, world) ==
    LET hi == 2 * Max(0, world - view)
        centred == 2 * p - view
    IN /\ 0 <= c
       /\ c <= hi
       /\ (0 <= centred /\ centred <= hi) => c = centred
       /\ world < view => c = 0

\* C7: after every recomputation of the camera, on each axis
\* 0 <= c <= max(0, worldDim - viewportDim), c = playerCoord - viewportDim/2
\* when that lies in the range, and c = 0 when worldDim < viewportDim.
C7_CameraClamp ==
    (Count(trace, "updateCamera") = 1 /\ myPlayer # NoPlayer) =>
        /\ AxisClamped(cameraX, myPlayer.x, canvasW, worldWidth)
        /\ AxisClamped(cameraY, myPlayer.y, canvasH, worldHeight)

\* C7 witness: the camera was recomputed in a window wider than the world and
\* less high, with the player centred on the y axis.
C7_Witness ==
    /\ Count(trace, "updateCamera") = 1
    /\ myPlayer # NoPlayer
    /\ canvasW > worldWidth
    /\ canvasH < worldHeight
    /\ cameraX = 0
    /\ cameraY = 2 * myPlayer.y - canvasH
    /\ cameraY > 0

----------------------------------------------------------------------------
(* Further claims on the sync engine (Spec) *)

\* C11: after a successful join-result that carries its entity set and its
\* avatar definitions is handled (the first or a later one, in any reachable
\* state), Local Identity is the assigned identifier, the Entity Store holds
\* exactly the entities of the message, the avatar table exactly its avatar
\* definitions, and every avatar of the table has an Asset Cache entry.
C11_JoinReplaces ==
    [][\A m \in JoinMsgs : (m.success /\ ~Malformed(m) /\ OnMessage(m)) =>
          /\ myPlayerId' = m.playerId
          /\ DOMAIN allPlayers' = Ids(m.players)
          /\ \A i \in 1..Len(m.players) : allPlayers'[m.players[i].id] = m.players[i]
          /\ DOMAIN avatars' = {m.avatars[i].name : i \in 1..Len(m.avatars)}
          /\ \A i \in 1..Len(m.avatars) : avatars'[m.avatars[i].name] = m.avatars[i]
          /\ DOMAIN avatars' \subseteq avatarImages'
          /\ Count(trace', "throw") = 0]_vars

\* C11 witness: a later join-result has replaced a store of two entities and
\* a table of two avatars by one entity and one avatar.
C11_Witness ==
    /\ Handled(trace, Call("message", "join_game"))
    /\ Count(trace, "draw") = 1
    /\ Count(trace, "fetch") = 0
    /\ DOMAIN allPlayers = {"p1"}
    /\ DOMAIN avatars = {"a1"}
    /\ avatarImages = {"a1", "a2"}

\* C13: the footstep cue fires only in the handling of a positions-update
\* whose batch has an entry of the Local Identity with its moving flag true;
\* the Local Identity is set only by a join-result that reports success, so
\* before one no message fires the cue.
C13_FootstepOnlyLocalMoving ==
    [][/\ Count(trace', "footstep") > 0 =>
            /\ myPlayerId # NoId
            /\ \E m \in MovedMsgs :
                 m.hasPlayers /\ OnMessage(m) /\ LocalMoving(m)
       /\ myPlayerId' # myPlayerId =>
            \E m \in JoinMsgs : m.success /\ OnMessage(m)]_vars

\* C13 witness: after the join, a positions-update whose only moving entry is
\* another entity's has been handled while the cooldown had passed, and no
\* cue fired.
C13_Witness ==
    /\ Handled(trace, Call("message", "players_moved"))
    /\ myPlayerId = "p1"
    /\ Count(trace, "set") = 2
    /\ Count(trace, "footstep") = 0
    /\ soundEnabled
    /\ now - lastFootstepTime >= footstepCooldown
    /\ allPlayers["p2"].isMoving
    /\ ~allPlayers["p1"].isMoving

\* A state where the cue has fired.
C13_Fired ==
    /\ Handled(trace, Call("message", "players_moved"))
    /\ Count(trace, "footstep") = 1

----------------------------------------------------------------------------
(* Further claims on the input translator (SpecInput) *)

SendOps == {"send:join", "send:move", "send:stop", "send:moveto", "send:chat"}

\* The positions of the outbound messages among the calls of s.
Sent(s) == {i \in 1..Len(s) : s[i].op \in SendOps}

\* The event whose handler alone may write the outbound message e.
EventOf(e) ==
    CASE e.op = "send:join" -> {Call("open", "")}
      [] e.op = "send:move" -> {Call("keydown", k) : k \in {q \in Keys : GetDirectionFromKey(q) = e.arg}}
      [] e.op = "send:stop" -> {Call("keyup", k) : k \in MovementKeys}
      [] e.op = "send:moveto" -> {CallXY("click", "", p[1], p[2]) : p \in Clicks}
      [] e.op = "send:chat" -> {Call("chatbutton", e.arg)}
      [] OTHER -> {}

\* C12: an outbound message (join, directional move, point move, stop, chat)
\* is written only while the channel is open, and only by the handler of the
\* event that produced it, at most one per event: an intent produced while
\* the channel is not open is dropped and nothing sends it later.  The key
\* event that produced it still updates the pressed-key set.
C12_NoSendUnlessOpen ==
    [][/\ Sent(trace') # {} => wsState' = "open"
       /\ Cardinality(Sent(trace')) <= 1
       /\ \A i \in Sent(trace') : trace'[1] \in EventOf(trace'[i])
       /\ wsState # "open" =>
            \A k \in Keys :
              /\ HandleKeyDown(k) =>
                   pressedKeys' = pressedKeys \cup ({k} \cap MovementKeys)
              /\ HandleKeyUp(k) => pressedKeys' = pressedKeys \ {k}]_vars

\* C12 witness: a key was pressed before the channel opened; the channel has
\* just opened and only the join request was written, the key still held.
C12_Witness ==
    /\ wsState = "open"
    /\ pressedKeys = {"ArrowUp"}
    /\ trace = <<Call("open", ""), Call("send:join", "Tim")>>
\* n is the integer nearest to the value v2 given in half pixels, the upper
\* one of the two when v2 is odd.
Nearest(n, v2) == 2 * n - 1 <= v2 /\ v2 < 2 * n + 1

\* C16: with the channel open, a click at the screen point (sx, sy) writes
\* exactly one outbound message, a point move with x = round(sx + cameraX)
\* and y = round(sy + cameraY), whatever keys are pressed; the click leaves
\* the pressed-key set and the movement state unchanged and writes no
\* directional move and no stop.
C16_ClickMovesTo ==
    [][\A p \in Clicks : (wsState = "open" /\ HandleCanvasClick(p[1], p[2])) =>
          /\ Count(trace', "send:moveto") = 1
          /\ Cardinality(Sent(trace')) = 1
          /\ \A i \in Sent(trace') :
               /\ Nearest(trace'[i].x, 2 * p[1] + cameraX)
               /\ Nearest(trace'[i].y, 2 * p[2] + cameraY)
          /\ pressedKeys' = pressedKeys
          /\ isMoving' = isMoving
          /\ currentDirection' = currentDirection]_vars

\* C16 witness: a click with two keys held and the camera at a half pixel
\* (599.5, 699.5) has written its point move.
C16_Witness ==
    /\ wsState = "open"
    /\ Handled(trace, CallXY("click", "", 0, 0))
    /\ cameraX = 1199
    /\ cameraY = 1399
    /\ pressedKeys = {"ArrowUp", "ArrowLeft"}
    /\ Len(trace) = 2
    /\ trace[2] = CallXY("send:moveto", "", 600, 700)

----------------------------------------------------------------------------
(* Further claims on overlays (SpecOverlay) *)

OrphanExpired ==
    /\ myPlayerId # NoId
    /\ "p2" \notin DOMAIN allPlayers
    /\ "p2" \in DOMAIN chatMessages
    /\ Expired(chatMessages["p2"], now)

\* The entity-left of p2 has just been handled and p2 has an overlay.
LeftWithOverlay ==
    /\ Handled(trace, Call("message", "player_left"))
    /\ "p2" \notin DOMAIN allPlayers
    /\ "p2" \in DOMAIN chatMessages

\* C18: after an entity that has an overlay has left, whenever the TTL of
\* the overlay has elapsed, then, rendering continuing, the overlay entry is
\* eventually removed from the Overlay Tracker (or the entity is back in the
\* store, or a new chat message has set the overlay again).
C18_DepartedOverlayRemoved ==
    [](LeftWithOverlay =>
         [](OrphanExpired =>
              <>(\/ "p2" \notin DOMAIN chatMessages
                 \/ "p2" \in DOMAIN allPlayers
                 \/ ~Expired(chatMessages["p2"], now))))

\* C19, as the spec states it: a render (here the one of the resize
\* listener, which does nothing else to the client's data) leaves the Entity
\* Store, the Overlay Tracker, the Asset Cache, the camera, the key state
\* and the Local Identity as they were.
C19_RenderPureRead ==
    [][(\E v \in OverlayViewports : Resize(v[1], v[2])) =>
          UNCHANGED <<allPlayers, chatMessages, avatars, avatarImages, cameraX,
                      cameraY, pressedKeys, isMoving, currentDirection,
                      myPlayerId, myPlayer>>]_vars

\* C19, amended: a render leaves the Entity Store, the Asset Cache, the
\* camera, the key state and the Local Identity as they were, and removes
\* from the Overlay Tracker exactly the overlays that have outlived their TTL
\* and belong to an entity of the Entity Store; every other overlay is kept
\* as it was.
C19_RenderPurgesOnly ==
    [][(\E v \in OverlayViewports : Resize(v[1], v[2])) =>
          /\ UNCHANGED <<allPlayers, avatars, avatarImages, cameraX, cameraY,
                         pressedKeys, isMoving, currentDirection, myPlayerId,
                         myPlayer>>
          /\ DOMAIN chatMessages' =
               {id \in DOMAIN chatMessages :
                  ~(id \in DOMAIN allPlayers
                      /\ now - chatMessages[id].timestamp > chatDuration)}
          /\ \A id \in DOMAIN chatMessages' : chatMessages'[id] = chatMessages[id]
          /\ Count(trace', "delete") =
               Cardinality(DOMAIN chatMessages \ DOMAIN chatMessages')]_vars

\* C19 witness: the render of a resize has deleted the expired overlay of the
\* local player and kept the expired overlay of an entity that is not in the
\* store.
C19_Witness ==
    /\ Handled(trace, Call("resize", ""))
    /\ Count(trace, "delete") = 1
    /\ "p1" \in DOMAIN allPlayers
    /\ "p1" \notin DOMAIN chatMessages
    /\ "p3" \in DOMAIN chatMessages
    /\ now - chatMessages["p3"].timestamp > chatDuration

----------------------------------------------------------------------------
(* Further claims on the camera (SpecCamera) *)

\* C17: in the state the resize handler renders, the camera is the clamped
\* centring of the local player for the new viewport dimensions, so on each
\* axis 0 <= camera <= max(0, worldDim - newViewportDim).
C17_ResizeRecomputes ==
    (Handled(trace, Call("resize", "")) /\ myPlayer # NoPlayer) =>
        /\ <<cameraX, cameraY>> = CameraOf(myPlayer)
        /\ 0 <= cameraX /\ cameraX <= 2 * Max(0, worldWidth - canvasW)
        /\ 0 <= cameraY /\ cameraY <= 2 * Max(0, worldHeight - canvasH)

----------------------------------------------------------------------------
(* Claims on the renderer (SpecWellFormed) *)

\* The player is inside the viewport.
InViewport(player) ==
    /\ 0 <= 2 * player.x - cameraX /\ 2 * player.x - cameraX <= 2 * canvasW
    /\ 0 <= 2 * player.y - cameraY /\ 2 * player.y - cameraY <= 2 * canvasH

\* C20: in a frame rendered after the join, an entity inside the viewport
\* whose avatar has no Asset Cache entry is drawn without a sprite but with
\* its username label, and with its chat overlay when that is visible.
C20_MissingAssetLabel ==
    (Count(trace, "draw") = 1 /\ myPlayerId # NoId) =>
        \A id \in DOMAIN allPlayers :
            (allPlayers[id].avatar \notin avatarImages /\ InViewport(allPlayers[id])) =>
                /\ id \notin frame.sprites
                /\ id \in frame.labels
                /\ (id \in DOMAIN chatMessages
                      /\ ~Expired(chatMessages[id], now))
                     => id \in DOMAIN frame.bubbles

----------------------------------------------------------------------------
(* Claims on the local player record (SpecWellFormed) *)

\* C21: in every state after a successful join, myPlayer, the record the
\* camera reads, is the record the Entity Store holds under the Local
\* Identity, and is absent when the store does not hold the Local Identity.
C21_MyPlayerIsStored ==
    myPlayerId # NoId => myPlayer = MapGet(allPlayers, myPlayerId, NoPlayer)

====
